---- MODULE Spec2Model ----
(***************************************************************************)
(* Model of automation_jira.py: the Jira daily audit mailer.               *)
(*   fetch_all_issues -> group_by_assignee -> pick_random_per_analyst ->    *)
(*   print_console_summary / build_email_html                              *)
(* JSON values are modelled with an explicit tag so that an absent key, a  *)
(* null value and a real value stay distinguishable, as they are for       *)
(* dict.get, dict[...] and the "or" operator of Python.                    *)
(* Python strings are sequences of one-character strings.                  *)
(***************************************************************************)
EXTENDS Integers, Sequences, FiniteSets, Bags, TLC

VARIABLES issues, per_analyst, pc, err, groups, picks, selection, console, html,
          server_total, server_cap, start_at, fetched, fpc

vars == <<issues, per_analyst, pc, err, groups, picks, selection, console, html,
          server_total, server_cap, start_at, fetched, fpc>>

coreVars == <<issues, per_analyst, pc, err, groups, picks, selection, console, html>>
fetchVars == <<server_total, server_cap, start_at, fetched, fpc>>

----------------------------------------------------------------------------
(* Bounds of the model *)

\* longest issue list of the grouping / sampling / ordering runs
MaxIssues == 3
\* largest PER_ANALYST
MaxK == 2
\* PER_ANALYST goes down to -MaxNegK
MaxNegK == 1
\* longest issue list of the escaping runs
MaxEscIssues == 2
\* longest issue list of the incomplete-record runs
MaxPartialIssues == 2
\* most issues the Jira server holds in the pagination runs
MaxTotal == 120

----------------------------------------------------------------------------
(* JSON values *)

Missing == [t |-> "missing", v |-> <<>>]
Null == [t |-> "null", v |-> <<>>]
Str(s) == [t |-> "str", v |-> s]

\* dict.get(key, default): the default only when the key is absent
Get(val, default) == IF val.t = "missing" THEN default ELSE val

\* the assignee object of an issue: absent, null, {} or a user object
AMissing == [t |-> "missing", accountId |-> Missing, displayName |-> Missing]
ANull == [t |-> "null", accountId |-> Missing, displayName |-> Missing]
AEmpty == [t |-> "empty", accountId |-> Missing, displayName |-> Missing]
ADict(id, dn) == [t |-> "dict", accountId |-> id, displayName |-> dn]

\* the fields object of an issue: absent, null or a dict
FMissing == [t |-> "missing", summary |-> Missing, assignee |-> AMissing]
FNull == [t |-> "null", summary |-> Missing, assignee |-> AMissing]
FDict(s, a) == [t |-> "dict", summary |-> s, assignee |-> a]

Issue(k, f) == [key |-> k, fields |-> f]

\* Python truthiness of fields.get("assignee"): None and {} are falsy
Falsy(assignee) == assignee.t \in {"missing", "null", "empty"}

\* Python truthiness of a string-or-None value: None and "" are falsy
FalsyStr(val) == val.t # "str" \/ val.v = <<>>

----------------------------------------------------------------------------
(* Characters and strings *)

\* the characters used, in code point order
CharOrder ==
  <<" ", "\"", "&", "'", "(", ")", "1", "2", "3", "4", "5", "6", "7", "8", "9",
    "<", ">", "A", "D", "K", "N", "S",
    "a", "c", "d", "e", "g", "i", "k", "l", "m", "n", "o", "r", "s", "u", "v">>

Code(c) == CHOOSE i \in 1..Len(CharOrder) : CharOrder[i] = c

\* str.lower() on one character
LowerChar(c) ==
  CASE c = "A" -> "a"
    [] c = "D" -> "d"
    [] c = "K" -> "k"
    [] c = "N" -> "n"
    [] c = "S" -> "s"
    [] OTHER -> c

Lower(s) == [i \in 1..Len(s) |-> LowerChar(s[i])]

Min(a, b) == IF a <= b THEN a ELSE b

\* Python's < on str: lexicographic by code point
StrLess(a, b) ==
  \E i \in 1..(Min(Len(a), Len(b)) + 1) :
    /\ \A j \in 1..(i - 1) : a[j] = b[j]
    /\ \/ i > Len(a) /\ i <= Len(b)
       \/ i <= Len(a) /\ i <= Len(b) /\ Code(a[i]) < Code(b[i])

SinAsignar == <<"(", "S", "i", "n", " ", "a", "s", "i", "g", "n", "a", "r", ")">>
Desconocido == <<"D", "e", "s", "c", "o", "n", "o", "c", "i", "d", "o">>
SinClave == <<"(", "s", "i", "n", " ", "c", "l", "a", "v", "e", ")">>
SinResumen == <<"(", "s", "i", "n", " ", "r", "e", "s", "u", "m", "e", "n", ")">>
NoneText == <<"N", "o", "n", "e">>

\* account ids are opaque: one token each
Unassigned == <<"UNASSIGNED">>
SentinelKey == <<Str(Unassigned), Str(SinAsignar)>>

NoErr == [fn |-> "none", exc |-> "none"]
Raised(fn, exc) == [fn |-> fn, exc |-> exc]

----------------------------------------------------------------------------
(* group_by_assignee *)

\* the bucket key of one issue whose fields is a dict and whose assignee
\* carries an accountId when it is truthy
OwnerKeyMisplaced(assignee) ==
  IF Falsy(assignee) \/ assignee.displayName.t = "missing"
  THEN SentinelKey
  ELSE <<assignee.accountId, Get(assignee.displayName, Str(Desconocido))>>

OwnerKey(assignee) ==
  IF Falsy(assignee)
  THEN SentinelKey
  ELSE <<assignee.accountId, Get(assignee.displayName, Str(Desconocido))>>

\* groups is a dict in insertion order: a sequence of [k, items] entries
HasKey(d, k) == \E i \in 1..Len(d) : d[i].k = k

SetDefaultOverwrite(d, k, issue) ==
  IF HasKey(d, k)
  THEN [i \in 1..Len(d) |-> IF d[i].k = k THEN [k |-> k, items |-> <<issue>>] ELSE d[i]]
  ELSE Append(d, [k |-> k, items |-> <<issue>>])

\* groups.setdefault(key, []).append(issue)
SetDefaultAppend(d, k, issue) ==
  IF HasKey(d, k)
  THEN [i \in 1..Len(d) |->
          IF d[i].k = k THEN [k |-> k, items |-> Append(d[i].items, issue)] ELSE d[i]]
  ELSE Append(d, [k |-> k, items |-> <<issue>>])

RECURSIVE GroupLoop(_, _)
GroupLoop(rest, d) ==
  IF rest = <<>> THEN [err |-> NoErr, groups |-> d]
  ELSE
    LET issue == Head(rest)
        fields == Get(issue.fields, FDict(Missing, AMissing))
    IN IF fields.t = "null"
       THEN [err |-> Raised("group_by_assignee", "AttributeError"), groups |-> d]
       ELSE IF ~Falsy(fields.assignee) /\ fields.assignee.accountId.t = "missing"
       THEN [err |-> Raised("group_by_assignee", "KeyError"), groups |-> d]
       ELSE GroupLoop(Tail(rest), SetDefaultAppend(d, OwnerKey(fields.assignee), issue))

group_by_assignee(iss) == GroupLoop(iss, <<>>)

----------------------------------------------------------------------------
(* pick_random_per_analyst *)

SampleSizeUnclamped(per, n) == per

\* k=min(per_analyst, len(items))
SampleSize(per, n) == Min(per, n)

\* the sequences of k distinct elements of S
RECURSIVE Arrangements(_, _)
Arrangements(S, k) ==
  IF k = 0 THEN {<<>>}
  ELSE UNION {{<<x>> \o r : r \in Arrangements(S \ {x}, k - 1)} : x \in S}

SamplePositionsWithReplacement(n, k) == [1..k -> 1..n]

\* random.sample(population, k): the positions it may return, in the order
\* it returns them; any k distinct positions, whatever the random source does
SamplePositions(n, k) == Arrangements(1..n, k)

\* random.sample raises ValueError unless 0 <= k <= len(population)
SampleRaises(d, per) ==
  \E i \in 1..Len(d) :
    LET n == Len(d[i].items)
        k == SampleSize(per, n)
    IN k < 0 \/ k > n

RECURSIVE AllPicks(_, _)
AllPicks(d, per) ==
  IF d = <<>> THEN {<<>>}
  ELSE LET n == Len(Head(d).items)
       IN {<<p>> \o r : p \in SamplePositions(n, SampleSize(per, n)),
                        r \in AllPicks(Tail(d), per)}

\* selection[(account_id, name)] = chosen, in the order of groups.items()
SelectionOf(d, p) ==
  [i \in 1..Len(d) |->
     [k |-> d[i].k, items |-> [j \in 1..Len(p[i]) |-> d[i].items[p[i][j]]]]]

----------------------------------------------------------------------------
(* rendering *)

BaseUrl == <<"https://jira.example">>
Browse == <<"/browse/">>

EscapeCharNoQuote(c) ==
  CASE c = "&" -> "&amp;"
    [] c = "<" -> "&lt;"
    [] c = ">" -> "&gt;"
    [] OTHER -> c

\* html.escape(s), quote=True, on one character
EscapeChar(c) ==
  CASE c = "&" -> "&amp;"
    [] c = "<" -> "&lt;"
    [] c = ">" -> "&gt;"
    [] c = "\"" -> "&quot;"
    [] c = "'" -> "&#x27;"
    [] OTHER -> c

Escape(s) == [i \in 1..Len(s) |-> EscapeChar(s[i])]

SortKeyRaw(k) == k[2].v

\* key=lambda kv: kv[0][1].lower()
SortKey(k) == Lower(k[2].v)

\* sorted() evaluates the key of every entry first: None.lower() raises
SortRaises(sel) == \E i \in 1..Len(sel) : sel[i].k[2].t # "str"

\* one step of a stable sort: e, the last entry so far, goes after every
\* entry whose key is not greater
InsertStable(sorted, e) ==
  LET p == Cardinality({i \in 1..Len(sorted) :
                          ~StrLess(SortKey(e.k), SortKey(sorted[i].k))})
  IN SubSeq(sorted, 1, p) \o <<e>> \o SubSeq(sorted, p + 1, Len(sorted))

RECURSIVE SortedByName(_)
SortedByName(sel) ==
  IF sel = <<>> THEN <<>>
  ELSE InsertStable(SortedByName(SubSeq(sel, 1, Len(sel) - 1)), sel[Len(sel)])

\* issue.get("fields", {}) or {}
FieldsOrEmpty(issue) ==
  IF issue.fields.t = "dict" THEN issue.fields ELSE FDict(Missing, AMissing)

\* (assignee or {}).get("displayName") or "(Sin asignar)"
AssigneeName(fields) ==
  LET dn == IF Falsy(fields.assignee) THEN Missing ELSE fields.assignee.displayName
  IN IF FalsyStr(dn) THEN SinAsignar ELSE dn.v

\* escape(None) raises AttributeError: a null key or a null summary
HtmlItemRaises(issue) ==
  \/ issue.key.t = "null"
  \/ FieldsOrEmpty(issue).summary.t = "null"

HtmlItem(issue) ==
  LET key == Escape(Get(issue.key, Str(SinClave)).v)
      fields == FieldsOrEmpty(issue)
  IN [href |-> BaseUrl \o Browse \o key,
      key |-> key,
      summary |-> Escape(Get(fields.summary, Str(SinResumen)).v),
      assignee_name |-> Escape(AssigneeName(fields))]

HtmlRaises(sel) ==
  \/ SortRaises(sel)
  \/ \E i \in 1..Len(sel) : \E j \in 1..Len(sel[i].items) : HtmlItemRaises(sel[i].items[j])

\* the per-owner blocks of the HTML; owner is the (account_id, name) the
\* loop is at when it emits the block
HtmlBlocks(sel) ==
  LET ordered == SortedByName(sel)
  IN [i \in 1..Len(ordered) |->
         [owner |-> ordered[i].k,
          safe_name |-> Escape(IF FalsyStr(ordered[i].k[2]) THEN SinAsignar
                               ELSE ordered[i].k[2].v),
          count |-> Len(ordered[i].items),
          items |-> [j \in 1..Len(ordered[i].items) |-> HtmlItem(ordered[i].items[j])]]]

build_email_html_without_message(sel, total_issues) ==
  [ran |-> TRUE, total |-> total_issues, no_selection_msg |-> FALSE,
   blocks |-> HtmlBlocks(sel)]

\* the document build_email_html returns when it does not raise
build_email_html(sel, total_issues) ==
  [ran |-> TRUE, total |-> total_issues, no_selection_msg |-> (sel = <<>>),
   blocks |-> HtmlBlocks(sel)]

ShortMaxLen == 100

\* _short(text, maxlen=100)
Short(val) ==
  IF val.t # "str" THEN SinResumen
  ELSE IF Len(val.v) <= ShortMaxLen THEN val.v
  ELSE SubSeq(val.v, 1, ShortMaxLen - 3) \o <<".", ".", ".">>

\* an f-string prints None as "None"
Printed(val) == IF val.t = "str" THEN val.v ELSE NoneText

ConsoleLine(issue) ==
  LET key == Printed(Get(issue.key, Str(SinClave)))
      fields == FieldsOrEmpty(issue)
  IN [key |-> key,
      summary |-> Short(fields.summary),
      assignee_name |-> AssigneeName(fields),
      url |-> BaseUrl \o Browse \o key]

\* what print_console_summary prints when it does not raise
print_console_summary(sel, total_issues) ==
  LET ordered == SortedByName(sel)
  IN [ran |-> TRUE,
      total |-> total_issues,
      no_selection_msg |-> (sel = <<>>),
      blocks |-> [i \in 1..Len(ordered) |->
         [owner |-> ordered[i].k,
          name |-> Printed(ordered[i].k[2]),
          count |-> Len(ordered[i].items),
          lines |-> [j \in 1..Len(ordered[i].items) |-> ConsoleLine(ordered[i].items[j])]]]]

NotRun == [ran |-> FALSE, total |-> 0, no_selection_msg |-> FALSE, blocks |-> <<>>]

----------------------------------------------------------------------------
(* fetch_all_issues against a Jira server that holds server_total issues,   *)
(* numbered from 0, and serves at most server_cap of them per request       *)

MaxResults == 100

StatusCodes == {200, 500}

\* the server answers "at most 100 issues per request"
ServerCaps == {MaxResults \div 2, MaxResults}

Max(a, b) == IF a >= b THEN a ELSE b

\* data["issues"] of the answer to startAt=start, maxResults=wanted
ServedPage(start, wanted) ==
  LET n == Max(0, Min(Min(wanted, server_cap), server_total - start))
  IN [i \in 1..n |-> start + i - 1]

InitFetch ==
  /\ server_total \in 0..MaxTotal
  /\ server_cap \in ServerCaps
  /\ start_at = 0
  /\ fetched = <<>>
  /\ fpc = "loop"

\* one turn of the while True loop: one request and its handling
FetchPage ==
  /\ fpc = "loop"
  /\ \E status \in StatusCodes, json_ok \in BOOLEAN :
       IF status # 200 \/ ~json_ok
       THEN /\ fpc' = "raised"
            /\ UNCHANGED <<server_total, server_cap, start_at, fetched>>
       ELSE /\ fetched' = fetched \o ServedPage(start_at, MaxResults)
            /\ IF start_at + MaxResults >= server_total
               THEN fpc' = "returned" /\ start_at' = start_at
               ELSE fpc' = "loop" /\ start_at' = start_at + MaxResults
            /\ UNCHANGED <<server_total, server_cap>>
  /\ UNCHANGED coreVars

----------------------------------------------------------------------------
(* The issue lists the fetch hands to the pipeline *)

Digits == <<"1", "2", "3", "4", "5", "6", "7", "8", "9">>

SeqsUpTo(S, n) == UNION {[1..m -> S] : m \in 0..n}

AccountIds == {<<"acc1">>, <<"acc2">>}
DisplayNames == {<<"a", "n", "a">>, <<"A", "n", "a">>}

\* complete records: unassigned (assignee null or absent), or assigned to a
\* user whose display name may be absent
CoreAssignees ==
  {ANull, AMissing} \cup {ADict(Str(id), dn) : id \in AccountIds,
                                     dn \in {Missing} \cup {Str(n) : n \in DisplayNames}}

\* issue i has the unique key "K<i>"
CoreIssueLists ==
  UNION {{[i \in 1..m |-> Issue(Str(<<"K", Digits[i]>>), FDict(Str(<<"s">>), a[i]))] :
            a \in [1..m -> CoreAssignees]} : m \in 0..MaxIssues}

\* records whose texts carry the characters html.escape rewrites
MarkupTexts == {<<"K">>, <<"<", "&">>, <<">", "\"", "'">>}

EscapeIssues ==
  {Issue(Str(k), FDict(Str(s), ADict(Str(<<"acc1">>), Str(n)))) :
     k \in MarkupTexts, s \in MarkupTexts, n \in MarkupTexts}

\* incomplete records: any of key, fields, summary, assignee, accountId and
\* displayName absent or null
PartialAssignees ==
  {AMissing, ANull, AEmpty}
    \cup {ADict(id, dn) : id \in {Missing, Str(<<"acc1">>)},
                          dn \in {Missing, Null, Str(<<"a", "n", "a">>)}}

PartialIssues ==
  {Issue(k, f) : k \in {Missing, Null, Str(<<"K", "1">>)},
                 f \in {FMissing, FNull}
                         \cup {FDict(s, a) : s \in {Missing, Null, Str(<<"s">>)},
                                             a \in PartialAssignees}}

KRange == (0 - MaxNegK)..MaxK

InitPipeline ==
  /\ per_analyst \in KRange
  /\ pc = "start"
  /\ err = NoErr
  /\ groups = <<>>
  /\ picks = <<>>
  /\ selection = <<>>
  /\ console = NotRun
  /\ html = NotRun

FetchIdle ==
  /\ server_total = 0
  /\ server_cap = MaxResults
  /\ start_at = 0
  /\ fetched = <<>>
  /\ fpc = "idle"

Init == issues \in CoreIssueLists /\ InitPipeline /\ FetchIdle

InitEscape == issues \in SeqsUpTo(EscapeIssues, MaxEscIssues) /\ InitPipeline /\ FetchIdle

InitPartial == issues \in SeqsUpTo(PartialIssues, MaxPartialIssues) /\ InitPipeline /\ FetchIdle

InitFetchOnly == issues = <<>> /\ InitPipeline /\ per_analyst = MaxK /\ InitFetch

----------------------------------------------------------------------------
(* The steps of main() *)

Raise(e) ==
  /\ pc' = "raised"
  /\ err' = e

GroupByAssignee ==
  /\ pc = "start"
  /\ LET r == group_by_assignee(issues)
     IN IF r.err = NoErr
        THEN /\ groups' = r.groups
             /\ pc' = "grouped"
             /\ err' = err
        ELSE /\ Raise(r.err)
             /\ groups' = groups
  /\ UNCHANGED <<issues, per_analyst, picks, selection, console, html>>
  /\ UNCHANGED fetchVars

PickRandomPerAnalyst ==
  /\ pc = "grouped"
  /\ IF SampleRaises(groups, per_analyst)
     THEN /\ Raise(Raised("pick_random_per_analyst", "ValueError"))
          /\ UNCHANGED <<picks, selection>>
     ELSE \E p \in AllPicks(groups, per_analyst) :
            /\ picks' = p
            /\ selection' = SelectionOf(groups, p)
            /\ pc' = "sampled"
            /\ err' = err
  /\ UNCHANGED <<issues, per_analyst, groups, console, html>>
  /\ UNCHANGED fetchVars

\* main() prints the console summary only under DRY_RUN, before the HTML
PrintConsoleSummary ==
  /\ pc = "sampled"
  /\ IF selection # <<>> /\ SortRaises(selection)
     THEN /\ Raise(Raised("print_console_summary", "AttributeError"))
          /\ console' = console
     ELSE /\ console' = print_console_summary(selection, Len(issues))
          /\ pc' = "printed"
          /\ err' = err
  /\ UNCHANGED <<issues, per_analyst, groups, picks, selection, html>>
  /\ UNCHANGED fetchVars

BuildEmailHtml ==
  /\ pc \in {"sampled", "printed"}
  /\ IF HtmlRaises(selection)
     THEN /\ Raise(Raised("build_email_html", "AttributeError"))
          /\ html' = html
     ELSE /\ html' = build_email_html(selection, Len(issues))
          /\ pc' = "built"
          /\ err' = err
  /\ UNCHANGED <<issues, per_analyst, groups, picks, selection, console>>
  /\ UNCHANGED fetchVars

Next ==
  \/ GroupByAssignee
  \/ PickRandomPerAnalyst
  \/ PrintConsoleSummary
  \/ BuildEmailHtml

Spec == Init /\ [][Next]_vars

SpecEscape == InitEscape /\ [][Next]_vars

SpecPartial == InitPartial /\ [][Next]_vars

NextFetch == FetchPage

SpecFetch == InitFetchOnly /\ [][NextFetch]_vars

----------------------------------------------------------------------------
(* Properties *)

Range(s) == {s[i] : i \in DOMAIN s}

\* the multiset of the elements of a sequence
BagOf(s) == [x \in Range(s) |-> Cardinality({i \in DOMAIN s : s[i] = x})]

\* the issues of all buckets, bucket after bucket
RECURSIVE Flatten(_)
Flatten(d) == IF d = <<>> THEN <<>> ELSE Head(d).items \o Flatten(Tail(d))

GrouperRaised == err.fn = "group_by_assignee"
GrouperReturned == pc # "start" /\ ~GrouperRaised

SamplerRaised == err.fn = "pick_random_per_analyst"
SamplerReturned == GrouperReturned /\ pc # "grouped" /\ ~SamplerRaised

\* C1: group_by_assignee returns, and the multiset union of its buckets is
\* the input list: no bucket key twice, every input issue in the buckets as
\* often as in the input, nothing else in them.
C1_Partition ==
  pc # "start" =>
    /\ GrouperReturned
    /\ \A i, j \in 1..Len(groups) : groups[i].k = groups[j].k => i = j
    /\ BagOf(Flatten(groups)) = BagOf(issues)

C1_Witness ==
  /\ pc = "grouped"
  /\ Len(issues) = MaxIssues
  /\ Len(groups) >= 2
  /\ \E i \in 1..Len(groups) : Len(groups[i].items) >= 2
  /\ \E i \in 1..Len(groups) : groups[i].k = SentinelKey

\* C2: for a bound k >= 0 the sampler returns a selection with the owner
\* keys of the groups, sentinel included, each with min(k, |group|) issues.
C2_SamplingBound ==
  (per_analyst >= 0 /\ GrouperReturned /\ pc # "grouped") =>
    /\ SamplerReturned
    /\ Len(selection) = Len(groups)
    /\ \A i \in 1..Len(groups) :
         /\ selection[i].k = groups[i].k
         /\ Len(selection[i].items) = Min(per_analyst, Len(groups[i].items))

C2_Witness ==
  /\ pc = "sampled"
  /\ per_analyst >= 1
  /\ \E i \in 1..Len(groups) :
       /\ Len(groups[i].items) > per_analyst
       /\ Len(selection[i].items) = per_analyst
  /\ \E i \in 1..Len(groups) :
       /\ groups[i].k = SentinelKey
       /\ Len(groups[i].items) <= per_analyst
       /\ Len(selection[i].items) = Len(groups[i].items)

\* C3: for a bound k <= 0 and a non-empty group mapping the sampler does
\* not raise and every owner's selection is the empty list.
C3_NonPositiveBound ==
  (per_analyst <= 0 /\ GrouperReturned /\ pc # "grouped" /\ groups # <<>>) =>
    /\ SamplerReturned
    /\ Len(selection) = Len(groups)
    /\ \A i \in 1..Len(selection) : selection[i].items = <<>>

\* C4: the sampler picks each position of a group at most once, and a group
\* no larger than the bound is selected whole: the same issues, each once.
C4_WithoutReplacement ==
  SamplerReturned =>
    \A i \in 1..Len(groups) :
      /\ \A a, b \in 1..Len(picks[i]) : picks[i][a] = picks[i][b] => a = b
      /\ \A a \in 1..Len(picks[i]) :
           /\ picks[i][a] \in 1..Len(groups[i].items)
           /\ selection[i].items[a] = groups[i].items[picks[i][a]]
      /\ Len(groups[i].items) <= per_analyst =>
           BagOf(selection[i].items) = BagOf(groups[i].items)

C4_Witness ==
  /\ pc = "sampled"
  /\ \E i \in 1..Len(groups) :
       /\ Len(groups[i].items) >= 2
       /\ Len(groups[i].items) <= per_analyst
       /\ selection[i].items # groups[i].items

OwnersOf(doc) == [i \in 1..Len(doc.blocks) |-> doc.blocks[i].owner]

\* C5: the HTML and the console emit the same sequence of owners, and the
\* lower-cased display names along it never decrease.
C5_Ordering ==
  (pc = "built" /\ console.ran /\ html.ran) =>
    /\ OwnersOf(html) = OwnersOf(console)
    /\ Len(html.blocks) = Len(selection)
    /\ \A i, j \in 1..Len(html.blocks) :
         i < j => ~StrLess(Lower(html.blocks[j].owner[2].v),
                           Lower(html.blocks[i].owner[2].v))

C5_Witness ==
  /\ pc = "built"
  /\ console.ran
  /\ html.ran
  /\ Len(html.blocks) >= 3
  /\ \E i \in 1..(Len(html.blocks) - 1) :
       /\ html.blocks[i].owner[2].v # html.blocks[i + 1].owner[2].v
       /\ Lower(html.blocks[i].owner[2].v) = Lower(html.blocks[i + 1].owner[2].v)
  /\ OwnersOf(html) # [i \in 1..Len(selection) |-> selection[i].k]

\* an issue has an owner reference when its assignee is a user object
HasOwner(issue) == issue.fields.t = "dict" /\ issue.fields.assignee.t = "dict"

\* the owner identity of an issue: (identifier, display name), the display
\* name "Desconocido" when the owner has none, the sentinel without owner
IdentityOf(issue) ==
  IF HasOwner(issue)
  THEN <<issue.fields.assignee.accountId,
         IF issue.fields.assignee.displayName.t = "missing"
         THEN Str(Desconocido) ELSE issue.fields.assignee.displayName>>
  ELSE <<Str(Unassigned), Str(SinAsignar)>>

\* C6: every issue lies in the bucket keyed by its own owner identity, and
\* in a bucket with identifier "UNASSIGNED" exactly when it has no owner.
C6_OwnBucket ==
  GrouperReturned =>
    \A i \in 1..Len(groups) : \A j \in 1..Len(groups[i].items) :
      /\ groups[i].k = IdentityOf(groups[i].items[j])
      /\ groups[i].k[1] = Str(Unassigned) <=> ~HasOwner(groups[i].items[j])

C6_Witness ==
  /\ pc = "grouped"
  /\ \E i \in 1..Len(groups) :
       groups[i].k[1] = Str(Unassigned) /\ Len(groups[i].items) >= 2
  /\ \E i \in 1..Len(groups) : groups[i].k[2] = Str(Desconocido)

\* C7: with k >= 0 the pipeline never raises on incomplete records.
C7_NeverRaises == per_analyst >= 0 => pc # "raised"

\* C8: an empty issue list raises nothing and yields an empty selection,
\* and for an empty selection both renderers emit the no-issues message and
\* no owner block.
C8_EmptyReport ==
  /\ issues = <<>> => (pc # "raised" /\ groups = <<>> /\ selection = <<>>)
  /\ (html.ran /\ selection = <<>>) => (html.no_selection_msg /\ html.blocks = <<>>)
  /\ (console.ran /\ selection = <<>>) =>
       (console.no_selection_msg /\ console.blocks = <<>>)

C8_Witness ==
  /\ issues = <<>>
  /\ pc = "built"
  /\ console.ran
  /\ html.ran
  /\ html.no_selection_msg
  /\ console.no_selection_msg

MarkupChars == {"<", ">", "&", "\"", "'"}

NoRawMarkup(text) == \A i \in 1..Len(text) : text[i] \notin MarkupChars

\* C9: in the HTML every key, summary, group name and assignee name carries
\* no raw <, >, &, " or ', also the key inside the href of the link.
C9_Escaped ==
  html.ran =>
    \A i \in 1..Len(html.blocks) :
      /\ NoRawMarkup(html.blocks[i].safe_name)
      /\ \A j \in 1..Len(html.blocks[i].items) :
           LET li == html.blocks[i].items[j]
           IN /\ NoRawMarkup(li.key)
              /\ NoRawMarkup(li.summary)
              /\ NoRawMarkup(li.assignee_name)
              /\ NoRawMarkup(SubSeq(li.href, Len(BaseUrl \o Browse) + 1, Len(li.href)))
              /\ Len(li.href) = Len(BaseUrl \o Browse) + Len(li.key)

C9_Witness ==
  /\ html.ran
  /\ \E i \in 1..Len(html.blocks) :
       /\ html.blocks[i].safe_name = <<"&lt;", "&amp;">>
       /\ \E j \in 1..Len(html.blocks[i].items) :
            LET li == html.blocks[i].items[j]
            IN /\ li.href = BaseUrl \o Browse \o <<"&gt;", "&quot;", "&#x27;">>
               /\ li.summary = <<"&lt;", "&amp;">>
               /\ li.assignee_name = <<"&lt;", "&amp;">>

\* C10: against a server that answers 200 and serves at most 100 issues per
\* request the loop returns each of the server's issues exactly once.
C10_FetchesAll ==
  fpc = "returned" => fetched = [i \in 1..server_total |-> i - 1]

====
